---- MODULE Spec2Model ----
(***************************************************************************)
(* A model of the daily-routine tracker src/app.py: the derivations       *)
(* (minutes, calc_fasting_hours, score), the CSV-backed table (load_df,   *)
(* save_df, the save_clicked upsert) and the "recent statistics" block.   *)
(*                                                                         *)
(* Representation.                                                         *)
(*  - A Python str is a sequence of one-character strings (a Text), so    *)
(*    that formatting, parsing and lexicographic order are computed.      *)
(*  - A float is a fixed-point integer counting 1/Scale of a unit; with   *)
(*    Scale = 300 both n/60 (minutes as hours) and n/100 (two decimals)   *)
(*    are exact, and every float the program produces is one of these.    *)
(*  - A DataFrame cell is a tagged value [k, s, n]: "str", "int",        *)
(*    "float" or "nan"; a DataFrame is a sequence of rows, a row a record *)
(*    over the twelve columns.                                             *)
(*  - The backing file is [exists, lines]; lines[1] is the header, the    *)
(*    other lines are tuples of twelve field Texts.  CSV quoting and the  *)
(*    utf-8-sig byte order mark are lossless both ways and are carried by *)
(*    the field structure.                                                 *)
(***************************************************************************)
EXTENDS Integers, Sequences, FiniteSets, TLC

VARIABLES file, df, row, df2, ui, saved, pc

vars == <<file, df, row, df2, ui, saved, pc>>

(***************************************************************************)
(* Text                                                                    *)
(***************************************************************************)
\* The characters the model uses, in code-point order.
Alphabet ==
    << " ", "#", "-", ".", "/", "0", "1", "2", "3", "4", "5", "6", "7", "8",
       "9", ":", "<", ">", "A", "D", "I", "L", "N", "Q", "U", "a", "e", "k",
       "l", "n", "o", "u" >>

Ords == [c \in {Alphabet[i] : i \in 1..Len(Alphabet)} |-> CHOOSE i \in 1..Len(Alphabet) : Alphabet[i] = c]

Ord(c) == Ords[c]

DigitChars == << "0", "1", "2", "3", "4", "5", "6", "7", "8", "9" >>

Digit(n) == DigitChars[n + 1]

DigitSet == {DigitChars[i] : i \in 1..10}

IsDigit(c) == c \in DigitSet

DigitValues == [c \in DigitSet |-> (CHOOSE i \in 1..10 : DigitChars[i] = c) - 1]

DigitVal(c) == DigitValues[c]

\* str < str of Python: lexicographic by code point, a proper prefix first.
RECURSIVE TextLess(_, _)
TextLess(s, t) ==
    IF t = << >> THEN FALSE
    ELSE IF s = << >> THEN TRUE
    ELSE IF Head(s) = Head(t) THEN TextLess(Tail(s), Tail(t))
    ELSE Ord(Head(s)) < Ord(Head(t))

\* The decimal digits of a natural number, no padding (str(int)).
RECURSIVE IntText(_)
IntText(n) == IF n < 10 THEN << Digit(n) >> ELSE IntText(n \div 10) \o << Digit(n % 10) >>

\* Two digits, zero padded (%H, %M, %m, %d of strftime).
Pad2(n) == << Digit((n \div 10) % 10), Digit(n % 10) >>

\* Four digits, zero padded (%Y of strftime).
Pad4(n) == << Digit((n \div 1000) % 10), Digit((n \div 100) % 10) >> \o Pad2(n % 100)

\* The value of a Text of digits (int("007") = 7).
RECURSIVE DigitsVal(_)
DigitsVal(s) == IF s = << >> THEN 0 ELSE DigitsVal(SubSeq(s, 1, Len(s) - 1)) * 10 + DigitVal(s[Len(s)])

\* str.strip(): leading and trailing blanks removed.
RECURSIVE Strip(_)
Strip(s) ==
    IF s = << >> THEN s
    ELSE IF Head(s) = " " THEN Strip(Tail(s))
    ELSE IF s[Len(s)] = " " THEN Strip(SubSeq(s, 1, Len(s) - 1))
    ELSE s

(***************************************************************************)
(* Configuration (src/app.py lines 9-13)                                   *)
(***************************************************************************)
Scale == 300

WAKE_TARGET == [hour |-> 5, minute |-> 0]

FASTING_TARGET_HOURS == 16 * Scale

cols ==
    << "date", "wake_time", "wake_on_time", "cold_shower", "yoga", "warm_water",
       "last_meal", "first_meal", "fasting_hours", "fasting_ok", "score", "note" >>

(***************************************************************************)
(* Derivations                                                             *)
(***************************************************************************)
minutes(t) == t.hour * 60 + t.minute

calc_fasting_hours_no_wrap_at_zero(last_meal, first_meal) ==
    LET a == minutes(last_meal)
        b == minutes(first_meal)
        diff == b - a
        diff2 == IF diff < 0 THEN diff + 24 * 60 ELSE diff
    IN  (diff2 * Scale) \div 60

calc_fasting_hours_reversed(last_meal, first_meal) ==
    LET a == minutes(last_meal)
        b == minutes(first_meal)
        diff == a - b
        diff2 == IF diff <= 0 THEN diff + 24 * 60 ELSE diff
    IN  (diff2 * Scale) \div 60

calc_fasting_hours(last_meal, first_meal) ==
    LET a == minutes(last_meal)
        b == minutes(first_meal)
        diff == b - a
        diff2 == IF diff <= 0 THEN diff + 24 * 60 ELSE diff
    IN  (diff2 * Scale) \div 60

bool_to_int(x) == IF x THEN 1 ELSE 0

\* round(x, 2) of a float x: the nearest multiple of 1/100 (ties to even).
round2(x) ==
    LET u == Scale \div 100
        q == x \div u
        r == x % u
    IN  IF 2 * r < u THEN q * u
        ELSE IF 2 * r > u THEN (q + 1) * u
        ELSE IF q % 2 = 0 THEN q * u ELSE (q + 1) * u

(***************************************************************************)
(* Dates: datetime.date, strftime("%Y-%m-%d"), pd.to_datetime              *)
(***************************************************************************)
IsLeap(y) == (y % 4 = 0) /\ ((y % 100 # 0) \/ (y % 400 = 0))

\* The days of a common year before each month.
DAYS_BEFORE_MONTH == << 0, 31, 59, 90, 120, 151, 181, 212, 243, 273, 304, 334 >>

DaysBeforeMonth(y, m) == DAYS_BEFORE_MONTH[m] + (IF m > 2 /\ IsLeap(y) THEN 1 ELSE 0)

DaysBeforeYear(y) == (((y - 1) * 365 + ((y - 1) \div 4)) - ((y - 1) \div 100)) + ((y - 1) \div 400)

\* date.toordinal(): the day number, 0001-01-01 being day 1.
Ordinal(d) == DaysBeforeYear(d.year) + DaysBeforeMonth(d.year, d.month) + d.day

\* selected_date.strftime(MONTH_FMT), MONTH_FMT = "%Y-%m-%d".
strftime_date(d) == Pad4(d.year) \o << "-" >> \o Pad2(d.month) \o << "-" >> \o Pad2(d.day)

\* t.strftime("%H:%M").
strftime_time(t) == Pad2(t.hour) \o << ":" >> \o Pad2(t.minute)

\* pd.to_datetime of a "YYYY-MM-DD" string cell, as a day number.
to_datetime(cell) ==
    LET s == cell.s
    IN  Ordinal([year  |-> ((DigitVal(s[1]) * 10 + DigitVal(s[2])) * 10 + DigitVal(s[3])) * 10 + DigitVal(s[4]),
                 month |-> DigitVal(s[6]) * 10 + DigitVal(s[7]),
                 day   |-> DigitVal(s[9]) * 10 + DigitVal(s[10])])

(***************************************************************************)
(* Cells                                                                   *)
(***************************************************************************)
\* k: the type of the value; s: the text of a str; n: the number of an int or
\* a float.
StrCell(s) == [k |-> "str", s |-> s, n |-> 0]

IntCell(n) == [k |-> "int", s |-> << >>, n |-> n]

FloatCell(x) == [k |-> "float", s |-> << >>, n |-> x]

NaN == [k |-> "nan", s |-> << >>, n |-> 0]

(***************************************************************************)
(* save_df: DataFrame.to_csv(DATA_FILE, index=False)                       *)
(***************************************************************************)
\* repr of a float with at most two decimals: 16.0, 16.5, 15.98.
FloatText(x) ==
    LET h == x \div (Scale \div 100)
        ip == h \div 100
        f == h % 100
    IN  IntText(ip) \o << "." >> \o
        (IF f % 10 = 0 THEN << Digit(f \div 10) >> ELSE Pad2(f))

\* One cell as a CSV field; a missing value is written as the empty field.
FormatCell(c) ==
    IF c.k = "str" THEN c.s
    ELSE IF c.k = "int" THEN IntText(c.n)
    ELSE IF c.k = "float" THEN FloatText(c.n)
    ELSE << >>

FormatRow(r) ==
    << FormatCell(r.date), FormatCell(r.wake_time), FormatCell(r.wake_on_time),
       FormatCell(r.cold_shower), FormatCell(r.yoga), FormatCell(r.warm_water),
       FormatCell(r.last_meal), FormatCell(r.first_meal), FormatCell(r.fasting_hours),
       FormatCell(r.fasting_ok), FormatCell(r.score), FormatCell(r.note) >>

RECURSIVE FormatRows(_)
FormatRows(d) == IF d = << >> THEN << >> ELSE << FormatRow(Head(d)) >> \o FormatRows(Tail(d))

\* The lines to_csv writes: the header, then one line per row.
to_csv(d) == << cols >> \o FormatRows(d)

(***************************************************************************)
(* load_df: pd.read_csv(DATA_FILE), default dtype inference per column     *)
(***************************************************************************)
\* The default na_values of read_csv.
NAValues ==
    { << >>,
      << "#", "N", "/", "A" >>, << "#", "N", "/", "A", " ", "N", "/", "A" >>,
      << "#", "N", "A" >>, << "-", "1", ".", "#", "I", "N", "D" >>,
      << "-", "1", ".", "#", "Q", "N", "A", "N" >>, << "-", "N", "a", "N" >>,
      << "-", "n", "a", "n" >>, << "1", ".", "#", "I", "N", "D" >>,
      << "1", ".", "#", "Q", "N", "A", "N" >>, << "<", "N", "A", ">" >>,
      << "N", "/", "A" >>, << "N", "A" >>, << "N", "U", "L", "L" >>,
      << "N", "a", "N" >>, << "N", "o", "n", "e" >>, << "n", "/", "a" >>,
      << "n", "a", "n" >>, << "n", "u", "l", "l" >> }

IsNA(tok) == tok \in NAValues

\* A field the parser reads as an integer: digits only ("07" is 7).
IsIntTok(tok) == Len(tok) > 0 /\ \A i \in 1..Len(tok) : IsDigit(tok[i])

\* A field the parser reads as a float: digits with one decimal point.
IsFloatTok(tok) ==
    /\ \A i \in 1..Len(tok) : IsDigit(tok[i]) \/ tok[i] = "."
    /\ \E i \in 1..Len(tok) : IsDigit(tok[i])
    /\ Cardinality({i \in 1..Len(tok) : tok[i] = "."}) = 1

\* The value of a numeric field with at most two decimals.
FloatVal(tok) ==
    IF IsIntTok(tok) THEN DigitsVal(tok) * Scale
    ELSE LET p == CHOOSE i \in 1..Len(tok) : tok[i] = "."
             ip == SubSeq(tok, 1, p - 1)
             fr == SubSeq(tok, p + 1, Len(tok))
             h == IF Len(fr) = 0 THEN 0
                  ELSE IF Len(fr) = 1 THEN DigitsVal(fr) * 10
                  ELSE DigitsVal(SubSeq(fr, 1, 2))
         IN  DigitsVal(ip) * Scale + h * (Scale \div 100)

\* The dtype read_csv infers for a column from its fields: int64 when every
\* field is an integer, float64 when every field is a number or missing,
\* object (str) otherwise.
ColumnKind(toks) ==
    IF \A i \in 1..Len(toks) : IsIntTok(toks[i]) THEN "int"
    ELSE IF \A i \in 1..Len(toks) : IsNA(toks[i]) \/ IsIntTok(toks[i]) \/ IsFloatTok(toks[i])
         THEN "float"
    ELSE "str"

ParseCell(kind, tok) ==
    IF kind = "int" THEN IntCell(DigitsVal(tok))
    ELSE IF IsNA(tok) THEN NaN
    ELSE IF kind = "float" THEN FloatCell(FloatVal(tok))
    ELSE StrCell(tok)

\* One line of the file as a row, each field parsed as its column's dtype.
ParseLine(line, kinds) ==
    [date          |-> ParseCell(kinds[1], line[1]),
     wake_time     |-> ParseCell(kinds[2], line[2]),
     wake_on_time  |-> ParseCell(kinds[3], line[3]),
     cold_shower   |-> ParseCell(kinds[4], line[4]),
     yoga          |-> ParseCell(kinds[5], line[5]),
     warm_water    |-> ParseCell(kinds[6], line[6]),
     last_meal     |-> ParseCell(kinds[7], line[7]),
     first_meal    |-> ParseCell(kinds[8], line[8]),
     fasting_hours |-> ParseCell(kinds[9], line[9]),
     fasting_ok    |-> ParseCell(kinds[10], line[10]),
     score         |-> ParseCell(kinds[11], line[11]),
     note          |-> ParseCell(kinds[12], line[12])]

RECURSIVE ParseLines(_, _)
ParseLines(data, kinds) ==
    IF data = << >> THEN << >>
    ELSE << ParseLine(Head(data), kinds) >> \o ParseLines(Tail(data), kinds)

\* The dtype of column j of the data lines.
KindOf(data, j) == ColumnKind([i \in 1..Len(data) |-> data[i][j]])

\* The table read from the lines of a file with a header and the twelve columns.
read_csv(lines) ==
    LET data == Tail(lines)
    IN  ParseLines(data,
            << KindOf(data, 1), KindOf(data, 2), KindOf(data, 3), KindOf(data, 4),
               KindOf(data, 5), KindOf(data, 6), KindOf(data, 7), KindOf(data, 8),
               KindOf(data, 9), KindOf(data, 10), KindOf(data, 11), KindOf(data, 12) >>)

\* load_df: the table of the file, or the empty table when there is no file.
load_df(f) == IF f.exists THEN read_csv(f.lines) ELSE << >>

(***************************************************************************)
(* The form: derived values and the row (src/app.py lines 85-125)          *)
(***************************************************************************)
fasting_ok_strict(fasting_hours) == fasting_hours > FASTING_TARGET_HOURS

fasting_ok(fasting_hours) == fasting_hours >= FASTING_TARGET_HOURS

wake_on_time(wake_time) == minutes(wake_time) <= minutes(WAKE_TARGET)

score_without_fasting(w, c, y, m, f) ==
    bool_to_int(w) + bool_to_int(c) + bool_to_int(y) + bool_to_int(m)

score(w, c, y, m, f) ==
    bool_to_int(w) + bool_to_int(c) + bool_to_int(y) + bool_to_int(m) + bool_to_int(f)

\* The dict `row` built from the widgets' values.
build_row(inp) ==
    LET fh == calc_fasting_hours(inp.last_meal, inp.first_meal)
        fok == fasting_ok(fh)
        wok == wake_on_time(inp.wake_time)
        sc == score(wok, inp.cold_shower, inp.yoga, inp.warm_water, fok)
    IN  [date          |-> StrCell(strftime_date(inp.selected_date)),
         wake_time     |-> StrCell(strftime_time(inp.wake_time)),
         wake_on_time  |-> IntCell(bool_to_int(wok)),
         cold_shower   |-> IntCell(bool_to_int(inp.cold_shower)),
         yoga          |-> IntCell(bool_to_int(inp.yoga)),
         warm_water    |-> IntCell(bool_to_int(inp.warm_water)),
         last_meal     |-> StrCell(strftime_time(inp.last_meal)),
         first_meal    |-> StrCell(strftime_time(inp.first_meal)),
         fasting_hours |-> FloatCell(round2(fh)),
         fasting_ok    |-> IntCell(bool_to_int(fok)),
         score         |-> IntCell(sc),
         note          |-> StrCell(Strip(inp.note))]

(***************************************************************************)
(* The upsert (src/app.py lines 128-130)                                   *)
(***************************************************************************)
\* df[df["date"] != date_str]
drop_date(d, date_str) == SelectSeq(d, LAMBDA r : r.date # StrCell(date_str))

\* The order sort_values gives the cells of a column: strings by code
\* point, missing values last.
CellLess(a, b) ==
    IF a.k = "nan" THEN FALSE
    ELSE IF b.k = "nan" THEN TRUE
    ELSE TextLess(a.s, b.s)

RECURSIVE InsertByDate(_, _)
InsertByDate(d, r) ==
    IF d = << >> THEN << r >>
    ELSE IF CellLess(r.date, Head(d).date) THEN << r >> \o d
    ELSE << Head(d) >> \o InsertByDate(Tail(d), r)

RECURSIVE SortRows(_)
SortRows(d) == IF d = << >> THEN d ELSE InsertByDate(SortRows(SubSeq(d, 1, Len(d) - 1)), d[Len(d)])

sort_values_unsorted(d) == d

\* df2.sort_values("date").reset_index(drop=True)
sort_values(d) == SortRows(d)

\* df2 of the save_clicked block: same date dropped, the row appended, sorted.
upsert(d, r) == sort_values(Append(drop_date(d, r.date.s), r))

(***************************************************************************)
(* Records view and recent statistics (src/app.py lines 142-177)           *)
(***************************************************************************)
HabitCols == << "wake_on_time", "cold_shower", "yoga", "warm_water", "fasting_ok" >>

Habits == {HabitCols[i] : i \in 1..Len(HabitCols)}

\* dfx["date_dt"].max()
RECURSIVE MaxFrom(_, _)
MaxFrom(d, m) ==
    IF d = << >> THEN m
    ELSE MaxFrom(Tail(d), IF to_datetime(Head(d).date) > m THEN to_datetime(Head(d).date) ELSE m)

max_date(d) == MaxFrom(Tail(d), to_datetime(Head(d).date))

cutoff_off_by_one(d, days) == max_date(d) - days

\* dfx["date_dt"].max() - pd.Timedelta(days=days-1)
cutoff(d, days) == max_date(d) - (days - 1)

RECURSIVE FromCutoff(_, _)
FromCutoff(d, c) ==
    IF d = << >> THEN << >>
    ELSE (IF to_datetime(Head(d).date) >= c THEN << Head(d) >> ELSE << >>) \o FromCutoff(Tail(d), c)

\* dfx[dfx["date_dt"] >= cutoff]
recent(d, days) == FromCutoff(d, cutoff(d, days))

RECURSIVE ColumnSum(_, _)
ColumnSum(rs, c) == IF rs = << >> THEN 0 ELSE Head(rs)[c].n + ColumnSum(Tail(rs), c)

\* num/den rounded to an integer, ties to even.
RoundHalfEven(num, den) ==
    LET q == num \div den
        r == num % den
    IN  IF 2 * r < den THEN q
        ELSE IF 2 * r > den THEN q + 1
        ELSE IF q % 2 = 0 THEN q ELSE q + 1

\* round(recent[c].mean() * 100, 1); the mean of no values is NaN.
rate(rs, c) ==
    IF rs = << >> THEN NaN
    ELSE FloatCell(RoundHalfEven(100 * 10 * ColumnSum(rs, c), Len(rs)) * (Scale \div 10))

\* f"{fasting_hours:.2f}": two decimals, always both written.
Fixed2Text(x) ==
    LET h == round2(x) \div (Scale \div 100)
    IN  IntText(h \div 100) \o << "." >> \o Pad2(h % 100)

\* What the form shows: the widgets' values and the derived values (st.info,
\* st.write).
Form(inp, fh, shown, fok, sc) ==
    [inp |-> inp, fasting_hours |-> fh, shown |-> shown, fasting_ok |-> fok, score |-> sc]

NoForm == Form(<< >>, 0, << >>, FALSE, 0)

form(inp) ==
    LET fh == calc_fasting_hours(inp.last_meal, inp.first_meal)
    IN  Form(inp, fh, Fixed2Text(fh), fasting_ok(fh),
             score(wake_on_time(inp.wake_time), inp.cold_shower, inp.yoga, inp.warm_water,
                   fasting_ok(fh)))

\* What the page shows.
\*   form:    the derived values shown in the form
\*   records: "warning" (no records yet) or "table"
\*   stats:   "none", "info" (no records in the period) or "rates"
\*   days:    the slider's value, n: the rows the rates are means of
Page(fm, records, stats, days, n, rates) ==
    [form |-> fm, records |-> records, stats |-> stats, days |-> days, n |-> n, rates |-> rates]

display_unguarded(fm, d, days) ==
    IF d = << >>
    THEN Page(fm, "table", "rates", days, 0, [c \in Habits |-> rate(d, c)])
    ELSE LET rc == recent(d, days)
         IN  Page(fm, "table", "rates", days, Len(rc), [c \in Habits |-> rate(rc, c)])

display(fm, d, days) ==
    IF d = << >>
    THEN Page(fm, "warning", "none", 0, 0, << >>)
    ELSE LET rc == recent(d, days)
         IN  IF rc = << >>
             THEN Page(fm, "table", "info", days, 0, << >>)
             ELSE Page(fm, "table", "rates", days, Len(rc), [c \in Habits |-> rate(rc, c)])

\* The page of a run that an exception ended, of a run still inside save_df,
\* and before the first run.
ErrorPage(fm) == Page(fm, "error", "none", 0, 0, << >>)

RunningPage(fm, days) == Page(fm, "running", "none", days, 0, << >>)

BlankPage == Page(NoForm, "blank", "none", 0, 0, << >>)

(***************************************************************************)
(* The script: one run per interaction (src/app.py lines 56-185)           *)
(***************************************************************************)
NoFile == [exists |-> FALSE, lines |-> << >>]

\* pd.read_csv raises EmptyDataError on a file of no bytes.
LoadFails(f) == f.exists /\ f.lines = << >>

Init ==
    /\ file = NoFile
    /\ df = << >>
    /\ row = << >>
    /\ df2 = << >>
    /\ ui = BlankPage
    /\ saved = << >>
    /\ pc = "idle"

LoadAbort ==
    /\ df' = << >>
    /\ row' = << >>
    /\ df2' = << >>
    /\ ui' = ErrorPage(NoForm)
    /\ pc' = "load_failed"
    /\ UNCHANGED <<file, saved>>

\* A run without a click on save: load, show the form's derived values, the
\* table and the statistics.
View(inp, days) ==
    /\ pc # "writing"
    /\ IF LoadFails(file) THEN LoadAbort
       ELSE /\ df' = load_df(file)
            /\ row' = << >>
            /\ df2' = << >>
            /\ ui' = display(form(inp), df', days)
            /\ pc' = "idle"
            /\ UNCHANGED <<file, saved>>

\* A run with a click on save, save_df writing the whole file: load, build
\* the row, upsert, write, show the new table.  saved keeps, for each date,
\* the row of the latest click on save.
Save(inp, days) ==
    /\ pc # "writing"
    /\ IF LoadFails(file) THEN LoadAbort
       ELSE /\ row' = build_row(inp)
            /\ df2' = upsert(load_df(file), row')
            /\ file' = [exists |-> TRUE, lines |-> to_csv(df2')]
            /\ df' = df2'
            /\ ui' = display(form(inp), df', days)
            /\ saved' = (row'.date.s :> row') @@ saved
            /\ pc' = "idle"

\* The same run with save_df taken apart: open(DATA_FILE, "w") truncates the
\* file, the lines are written one at a time, and the write can fail or the
\* process be stopped between any two of them.
SaveBegin(inp, days) ==
    /\ pc # "writing"
    /\ IF LoadFails(file) THEN LoadAbort
       ELSE /\ df' = load_df(file)
            /\ row' = build_row(inp)
            /\ df2' = upsert(df', row')
            /\ file' = [exists |-> TRUE, lines |-> << >>]
            /\ ui' = RunningPage(form(inp), days)
            /\ saved' = (row'.date.s :> row') @@ saved
            /\ pc' = "writing"

WriteLine ==
    /\ pc = "writing"
    /\ Len(file.lines) < Len(to_csv(df2))
    /\ file' = [file EXCEPT !.lines = Append(@, to_csv(df2)[Len(@) + 1])]
    /\ UNCHANGED <<df, row, df2, ui, saved, pc>>

SaveEnd ==
    /\ pc = "writing"
    /\ Len(file.lines) = Len(to_csv(df2))
    /\ df' = df2
    /\ ui' = display(ui.form, df2, ui.days)
    /\ pc' = "idle"
    /\ UNCHANGED <<file, row, df2, saved>>

WriteFails ==
    /\ pc = "writing"
    /\ ui' = ErrorPage(ui.form)
    /\ pc' = "write_failed"
    /\ UNCHANGED <<file, df, row, df2, saved>>

(***************************************************************************)
(* The widgets' values                                                     *)
(***************************************************************************)
T(h, m) == [hour |-> h, minute |-> m]

D(y, m, d) == [year |-> y, month |-> m, day |-> d]

\* Every value of st.time_input: a time of day to the minute.
AllTimes == {T(h, m) : h \in 0..23, m \in 0..59}

\* st.slider("...", min_value=3, max_value=60, value=7, step=1)
SliderMin == 3

SliderMax == 60

SliderDefault == 7

\* The slider values tried: the low end up to MaxDays, and the high end.
MaxDays == 5

Days == (SliderMin..MaxDays) \cup {SliderMax}

Input(date, wake, cold, yg, warm, last, first, nt) ==
    [selected_date |-> date, wake_time |-> wake, cold_shower |-> cold, yoga |-> yg,
     warm_water |-> warm, last_meal |-> last, first_meal |-> first, note |-> nt]

\* The widgets as the page first shows them (lines 63-94), on some day.
DefaultInput == Input(D(2024, 1, 1), T(5, 0), FALSE, FALSE, FALSE, T(19, 0), T(11, 0), << >>)

\* Dates either side of a year's end.
Dates == {D(2023, 12, 31), D(2024, 1, 1), D(2024, 1, 2)}

Notes ==
    { << >>, << "o", "k" >>, << " ", "o", "k", " " >>, << "0", "7" >>, << "N", "A" >> }

\* Spec: saves that differ in date, one habit and the note.
Inputs ==
    {Input(d, T(5, 0), c, FALSE, TRUE, T(19, 0), T(11, 0), nt) :
        d \in Dates, c \in BOOLEAN, nt \in Notes}

Next ==
    \/ \E inp \in Inputs : Save(inp, SliderDefault)
    \/ View(DefaultInput, SliderDefault)

Spec == Init /\ [][Next]_vars

\* SpecStats: saves that differ in the five flags, on dates three days apart
\* at most, and the statistics for each slider value.
StatDates == {D(2023, 12, 30), D(2024, 1, 1), D(2024, 1, 2)}

Habit(d, wake, cold, yg, warm, last, first) == Input(d, wake, cold, yg, warm, last, first, << >>)

StatInputs ==
    UNION {{Habit(d, T(5, 0), TRUE, TRUE, TRUE, T(18, 30), T(11, 0)),
            Habit(d, T(5, 1), FALSE, FALSE, FALSE, T(21, 0), T(7, 0)),
            Habit(d, T(5, 0), FALSE, FALSE, FALSE, T(21, 0), T(7, 0)),
            Habit(d, T(5, 1), TRUE, FALSE, FALSE, T(21, 0), T(7, 0)),
            Habit(d, T(5, 1), FALSE, TRUE, FALSE, T(21, 0), T(7, 0)),
            Habit(d, T(5, 1), FALSE, FALSE, TRUE, T(21, 0), T(7, 0)),
            Habit(d, T(5, 1), FALSE, FALSE, FALSE, T(18, 30), T(11, 0))} : d \in StatDates}

NextStats ==
    \/ \E inp \in StatInputs : Save(inp, SliderDefault)
    \/ \E days \in Days : View(DefaultInput, days)

SpecStats == Init /\ [][NextStats]_vars

\* SpecCalc: the first run of the page, for every pair of meal times, and a
\* first save for every last meal and every difference of the two times.
FirstMeals == {T(0, 0), T(11, 0), T(23, 59)}

Meal(last, first) == Input(D(2024, 1, 1), T(5, 0), FALSE, FALSE, FALSE, last, first, << >>)

NextCalc ==
    \/ /\ ui = BlankPage
       /\ \E last \in AllTimes, first \in AllTimes : View(Meal(last, first), SliderDefault)
    \/ /\ ui = BlankPage
       /\ \E last \in AllTimes, first \in FirstMeals : Save(Meal(last, first), SliderDefault)

SpecCalc == Init /\ [][NextCalc]_vars

\* SpecIO: the save with the write taken apart.
IOInputs ==
    {Input(d, T(5, 0), FALSE, FALSE, TRUE, T(19, 0), T(11, 0), nt) :
        d \in {D(2024, 1, 1), D(2024, 1, 2)}, nt \in {<< >>, << "o", "k" >>}}

NextIO ==
    \/ \E inp \in IOInputs : SaveBegin(inp, SliderDefault)
    \/ WriteLine
    \/ SaveEnd
    \/ WriteFails
    \/ View(DefaultInput, SliderDefault)

SpecIO == Init /\ [][NextIO]_vars

(***************************************************************************)
(* Properties                                                              *)
(***************************************************************************)
\* The run that ended last had a click on save.
HasRow == DOMAIN row # {}

\* The page shows the form.
HasForm == DOMAIN ui.form.inp # {}

\* The records of the store: the rows of the backing file.
StoreRows == load_df(file)

\* The minutes of a "HH:MM" text.
TextMinutes(s) == (DigitVal(s[1]) * 10 + DigitVal(s[2])) * 60 + DigitVal(s[4]) * 10 + DigitVal(s[5])

\* C1: after any sequence of saves the store holds exactly one record for
\* every date ever saved, and that record is the payload of the latest save
\* for that date, as to_csv writes it.
C1_LatestPayloadPerDate ==
    file.exists =>
        LET lines == Tail(file.lines)
        IN  /\ Len(lines) = Cardinality(DOMAIN saved)
            /\ \A d \in DOMAIN saved : \E i \in 1..Len(lines) : lines[i] = FormatRow(saved[d])

\* C1, the part that holds: one record for every date ever saved, equal to
\* the latest payload for that date in every field but the note.
C1_LatestPayloadButNote ==
    file.exists =>
        LET lines == Tail(file.lines)
        IN  /\ Len(lines) = Cardinality(DOMAIN saved)
            /\ \A d \in DOMAIN saved : \E i \in 1..Len(lines) :
                   SubSeq(lines[i], 1, 11) = SubSeq(FormatRow(saved[d]), 1, 11)

\* C2: after a save of row r, loading the store gives a table that holds a
\* record equal to r in every field.
C2_RoundTrip ==
    HasRow => \E j \in 1..Len(StoreRows) : StoreRows[j] = row

\* C3 as claimed: fasting_hours lies in [0, 24), as computed and as stored.
C3_FastingBelow24 ==
    /\ HasForm => (0 <= ui.form.fasting_hours /\ ui.form.fasting_hours < 24 * Scale)
    /\ \A i \in 1..Len(StoreRows) :
           0 <= StoreRows[i].fasting_hours.n /\ StoreRows[i].fasting_hours.n < 24 * Scale

\* C3 amended: fasting_hours lies in (0, 24], as computed and as stored: it
\* is never zero or negative, never above 24, and the computed value is 24
\* exactly when the two meal times are equal.
C3_FastingAbove0UpTo24 ==
    /\ HasForm =>
           /\ 0 < ui.form.fasting_hours
           /\ ui.form.fasting_hours <= 24 * Scale
           /\ (ui.form.fasting_hours = 24 * Scale) <=> (ui.form.inp.last_meal = ui.form.inp.first_meal)
    /\ \A i \in 1..Len(StoreRows) :
           /\ StoreRows[i].fasting_hours.k = "float"
           /\ 0 < StoreRows[i].fasting_hours.n
           /\ StoreRows[i].fasting_hours.n <= 24 * Scale

C3_Witness ==
    /\ HasRow
    /\ row.last_meal = row.first_meal
    /\ \E i \in 1..Len(StoreRows) : StoreRows[i].fasting_hours.n = 24 * Scale

\* C4: calc_fasting_hours is d/60, d being first - last in minutes when that
\* is positive and that plus 1440 otherwise: 24.0 for equal times, 16.0 for
\* (19:00, 11:00), 8.0 for (11:00, 19:00).
C4_FastingHoursValue ==
    HasForm =>
        LET last == ui.form.inp.last_meal
            first == ui.form.inp.first_meal
            m == (first.hour * 60 + first.minute) - (last.hour * 60 + last.minute)
            d == IF m > 0 THEN m ELSE m + 1440
        IN  /\ ui.form.fasting_hours * 60 = d * Scale
            /\ (last = first) => ui.form.fasting_hours = 24 * Scale
            /\ (last = T(19, 0) /\ first = T(11, 0)) => ui.form.fasting_hours = 16 * Scale
            /\ (last = T(11, 0) /\ first = T(19, 0)) => ui.form.fasting_hours = 8 * Scale

C4_Witness ==
    /\ HasForm
    /\ ui.form.inp.last_meal = T(8, 0)
    /\ ui.form.inp.first_meal = T(8, 0)
    /\ ui.form.fasting_hours = 24 * Scale

\* C5: in the row a save writes and in every record of the store, score is
\* an integer in 0..5, the number of flags set among wake_on_time,
\* cold_shower, yoga, warm_water and fasting_ok, and wake_on_time is set
\* exactly when the wake time is 05:00 (minute 300) or earlier.
ScoreOk(r) ==
    /\ r.score.k = "int"
    /\ r.score.n \in 0..5
    /\ \A c \in Habits : r[c].k = "int" /\ r[c].n \in {0, 1}
    /\ r.score.n = Cardinality({c \in Habits : r[c].n = 1})
    /\ (r.wake_on_time.n = 1) <=> (TextMinutes(r.wake_time.s) <= 300)

C5_ScoreCountsFlags ==
    /\ HasRow => ScoreOk(row)
    /\ \A i \in 1..Len(StoreRows) : ScoreOk(StoreRows[i])

C5_Witness ==
    /\ Len(StoreRows) = 3
    /\ \E i \in 1..3 : StoreRows[i].score.n = 5 /\ StoreRows[i].wake_time.s = << "0", "5", ":", "0", "0" >>
    /\ \E i \in 1..3 : StoreRows[i].wake_on_time.n = 0 /\ StoreRows[i].wake_time.s = << "0", "5", ":", "0", "1" >>

\* C6: after every load and every save the table is in ascending order of
\* date, no two rows out of order.
C6_SortedByDate ==
    \A i \in 1..Len(df) : \A j \in 1..Len(df) :
        i < j => to_datetime(df[i].date) < to_datetime(df[j].date)

C6_Witness ==
    /\ Len(df) = 3
    /\ HasRow
    /\ row = df[1]

\* C7: the rates are computed from exactly the records dated from
\* asOf - (days - 1) to asOf, asOf being the latest date present, and each
\* is 100 * (flags set) / (records in the window) to the nearest tenth; the
\* records 2024-01-01 (all set) and 2024-01-02 (none set) give 50.0 for every
\* habit, with a window of 2 days as with every window the slider offers.
InWindow(i, days) ==
    LET asOf == max_date(df)
    IN  asOf - (days - 1) <= to_datetime(df[i].date) /\ to_datetime(df[i].date) <= asOf

\* t tenths of a percent is k out of w to the nearest tenth.
NearestTenth(t, k, w) == 2 * t * w - 2000 * k <= w /\ 2000 * k - 2 * t * w <= w

IsExample ==
    /\ Len(df) = 2
    /\ df[1].date.s = strftime_date(D(2024, 1, 1))
    /\ df[2].date.s = strftime_date(D(2024, 1, 2))
    /\ \A c \in Habits : df[1][c].n = 1 /\ df[2][c].n = 0

C7_WindowedRates ==
    /\ ui.stats = "rates" =>
           LET W == {i \in 1..Len(df) : InWindow(i, ui.days)}
           IN  /\ ui.n = Cardinality(W)
               /\ \A c \in Habits :
                      /\ ui.rates[c].k = "float"
                      /\ ui.rates[c].n % (Scale \div 10) = 0
                      /\ NearestTenth(ui.rates[c].n \div (Scale \div 10),
                                      Cardinality({i \in W : df[i][c].n = 1}), Cardinality(W))
    /\ (ui.stats = "rates" /\ IsExample) => \A c \in Habits : ui.rates[c].n = 50 * Scale
    /\ IsExample => \A c \in Habits : rate(recent(df, 2), c).n = 50 * Scale

C7_Witness ==
    /\ ui.stats = "rates"
    /\ Len(df) = 3
    /\ ui.days = 3
    /\ ui.n = 2
    /\ to_datetime(df[1].date) = max_date(df) - ui.days
    /\ \E c \in Habits : ui.rates[c].n = 50 * Scale

\* C8: while save_df writes and after a write that failed, the backing file
\* holds the complete table from before the save or the complete table
\* after it.
C8_AtomicReplace ==
    pc \in {"writing", "write_failed"} =>
        \/ file.lines = to_csv(df2)
        \/ file.lines = to_csv(df)

\* C9: with no records (and so with no backing file yet) the page reports
\* that there is no data and computes no rate; whenever rates are shown they
\* are means over at least one record, and none is NaN.
C9_NoDivisionByEmpty ==
    /\ ~file.exists => StoreRows = << >>
    /\ (df = << >> /\ ui.records # "blank") => (ui.records = "warning" /\ ui.stats = "none")
    /\ ui.stats = "rates" =>
           /\ ui.n >= 1
           /\ ui.n = Len(recent(df, ui.days))
           /\ \A c \in Habits : ui.rates[c].k = "float"
    /\ (ui.records = "table" /\ ui.stats # "rates") => (ui.stats = "info" /\ recent(df, ui.days) = << >>)

C9_Witness ==
    /\ ~file.exists
    /\ df = << >>
    /\ ui.records = "warning"
    /\ ui.stats = "none"

\* C10: in every record of the store fasting_ok is 1 exactly when the stored
\* fasting_hours, rounded to two decimals, is at least 16.0.
C10_FlagAgreesWithStoredHours ==
    \A i \in 1..Len(StoreRows) :
        /\ StoreRows[i].fasting_ok.k = "int"
        /\ StoreRows[i].fasting_hours.k = "float"
        /\ (StoreRows[i].fasting_ok.n = 1) <=> (StoreRows[i].fasting_hours.n >= 16 * Scale)

\* The stored 15.98 of a fast of 15 hours 59 minutes.
C10_Witness ==
    \E i \in 1..Len(StoreRows) :
        /\ StoreRows[i].fasting_hours.n = 1598 * (Scale \div 100)
        /\ StoreRows[i].fasting_ok.n = 0
        /\ HasForm
        /\ ui.form.fasting_hours # StoreRows[i].fasting_hours.n

====
